---- MODULE Spec2Model ----
(***************************************************************************)
(* Verification model of the chess-move-gen crate: the value types of      *)
(* src/types.rs (PieceType, Piece, Square) and the perft harness of        *)
(* src/tests/tools.rs running against the Board interface (do_move,        *)
(* reverse_move, generate_moves, game_result).                             *)
(***************************************************************************)
EXTENDS Integers, Sequences, FiniteSets, TLC

VARIABLES call, ret, board, stack, result, root, outstanding, undone

vars == <<call, ret, board, stack, result, root, outstanding, undone>>

(***************************************************************************)
(* Bounds of the model.                                                    *)
(***************************************************************************)
\* longest text (in characters) handed to Square::from_alg
MaxLen == 3
\* largest code point handed to the from_letter functions
MaxChar == 260
\* largest small coordinate handed to Square::from_ints
MaxCoord == 9
\* deepest perft call on the extra test positions
MaxDepth == 3

(***************************************************************************)
(* Characters are code points.  u8 arithmetic keeps its width.             *)
(***************************************************************************)
Chars == 0..MaxChar

\* the characters the from_alg inputs are built from: the ends and the middle
\* of the file and rank ranges, their outer neighbours, and a two-byte
\* character
AlgChars == {96, 97, 100, 104, 105, 48, 49, 52, 56, 57, 233}

U8(n) == n % 256

RECURSIVE BitOr(_, _, _)
BitOr(a, b, bits) ==
    IF bits = 0 THEN 0
    ELSE (IF a % 2 = 1 \/ b % 2 = 1 THEN 1 ELSE 0)
         + 2 * BitOr(a \div 2, b \div 2, bits - 1)

\* char::len_utf8
len_utf8(c) == IF c < 128 THEN 1 ELSE IF c < 2048 THEN 2 ELSE IF c < 65536 THEN 3 ELSE 4

\* str::len : the length of a text in bytes
RECURSIVE str_len(_)
str_len(s) == IF s = <<>> THEN 0 ELSE len_utf8(Head(s)) + str_len(Tail(s))

to_ascii_uppercase(c) == IF c \in 97..122 THEN c - 32 ELSE c

to_ascii_lowercase(c) == IF c \in 65..90 THEN c + 32 ELSE c

\* char::is_lowercase (Unicode property Lowercase) on the code points below 262
is_lowercase(c) ==
    \/ c \in 97..122
    \/ c \in {170, 181, 186}
    \/ c \in 223..246
    \/ c \in 248..255
    \/ c \in {257, 259, 261}

(***************************************************************************)
(* Option, Result and panics.                                              *)
(***************************************************************************)
None == [tag |-> "None"]
Some(v) == [tag |-> "Some", val |-> v]
Ok(v) == [tag |-> "Ok", val |-> v]
Err(kind, msg) == [tag |-> "Err", kind |-> kind, msg |-> msg]
Panic == [tag |-> "Panic"]

(***************************************************************************)
(* enum PieceType and enum Piece, by discriminant.                         *)
(***************************************************************************)
Empty == 0
Pawn == 1
Knight == 2
Bishop == 3
Rook == 4
Queen == 5
King == 6
PieceTypes == {Empty, Pawn, Knight, Bishop, Rook, Queen, King}

White == "White"
Black == "Black"
Colors == {White, Black}

\* the 13 declared values of enum Piece
Pieces == {0} \cup (2..13)

\* PieceType::letter
letter(k) ==
    CASE k = Empty -> 32
      [] k = Pawn -> 80
      [] k = Knight -> 78
      [] k = Bishop -> 66
      [] k = Rook -> 82
      [] k = Queen -> 81
      [] k = King -> 75

\* PieceType::from_letter
PieceType_from_letter(ch) ==
    CASE ch = 32 -> Some(Empty)
      [] ch = 80 -> Some(Pawn)
      [] ch = 78 -> Some(Knight)
      [] ch = 66 -> Some(Bishop)
      [] ch = 82 -> Some(Rook)
      [] ch = 81 -> Some(Queen)
      [] ch = 75 -> Some(King)
      [] OTHER -> None

\* from_type_color with the colour bit forgotten
from_type_color_white(piece_type, c) ==
    IF piece_type = Empty THEN 0 ELSE U8(U8(piece_type) * 2)

\* Piece::from_type_color : the discriminant that is transmuted to a Piece
from_type_color(piece_type, c) ==
    IF piece_type = Empty THEN 0
    ELSE IF c = White THEN U8(U8(piece_type) * 2)
    ELSE U8(U8(U8(piece_type) * 2) + 1)

\* Piece::piece_type
piece_type(p) == U8(p \div 2)

\* Piece::color
color(p) ==
    IF p = 0 THEN None
    ELSE IF p % 2 = 0 THEN Some(White) ELSE Some(Black)

\* Option::unwrap_or
unwrap_or(o, d) == IF o.tag = "Some" THEN o.val ELSE d

\* Display for Piece with the lower-casing of Black pieces forgotten
Piece_fmt_upper(p) == letter(piece_type(p))

\* impl fmt::Display for Piece
Piece_fmt(p) ==
    IF unwrap_or(color(p), White) = White
    THEN letter(piece_type(p))
    ELSE to_ascii_lowercase(letter(piece_type(p)))

\* Piece::from_letter
Piece_from_letter(ch) ==
    LET t == PieceType_from_letter(to_ascii_uppercase(ch))
        low == is_lowercase(ch)
    IN  IF t.tag = "None" THEN None
        ELSE IF t.val = Empty THEN Some(0)
        ELSE IF low THEN Some(from_type_color(t.val, Black))
        ELSE Some(from_type_color(t.val, White))

(***************************************************************************)
(* struct Square(pub u8).                                                  *)
(***************************************************************************)
Squares == 0..63

\* Square::file
file(sq) == sq % 8

\* Square::rank
rank(sq) == sq \div 8

\* Square::file_rank
file_rank(sq) == <<file(sq), rank(sq)>>

Abs(n) == IF n < 0 THEN -n ELSE n

\* Display for Square with the re-flip of the rank forgotten
Square_fmt_noflip(sq) ==
    LET fr == file_rank(sq)
    IN  <<U8(fr[1] + 97), U8(fr[2] + 49)>>

\* impl fmt::Display for Square : the text written
Square_fmt(sq) ==
    LET fr == file_rank(sq)
        actual_rank == U8(U8(Abs(fr[2] - 8)) + 48)
    IN  <<U8(fr[1] + 97), actual_rank>>

\* the message of the error from_alg builds: format!("Invalid square {}", alg)
InvalidSquare(alg) == <<"Invalid square ", alg>>

\* Square::from_alg
from_alg(alg) ==
    IF str_len(alg) # 2
    THEN Err("ParseError", InvalidSquare(alg))
    ELSE IF Len(alg) < 2
    THEN Panic \* chars().nth(1) is None: unwrap panics
    ELSE LET f == alg[1]
             r == alg[2]
         IN  IF f < 97 \/ f > 104 \/ r < 49 \/ r > 56
             THEN Err("ParseError", InvalidSquare(alg))
             ELSE LET file_u8 == f - 97
                      rank_u8 == 8 - (r - 48)
                  IN  Ok(U8(rank_u8 * 8 + file_u8))

\* Square::from_ints under one build: debug_assert! is checked only when
\* debug assertions are compiled in
from_ints(f, r, debug_assertions) ==
    IF debug_assertions /\ ~(f < 8 /\ r < 8)
    THEN Panic
    ELSE Ok(BitOr(U8(r * 8), f, 8))

(***************************************************************************)
(* The board behind the Board interface: 64 cells of Piece (index 0 is a8, *)
(* index 63 is h1), side to move, castling rights, en-passant target,      *)
(* half-move clock and full-move counter.                                  *)
(***************************************************************************)
\* Square::A8 .. Square::H1, the home squares of kings and rooks
SqA8 == 0
SqE8 == 4
SqH8 == 7
SqA1 == 56
SqE1 == 60
SqH1 == 63

\* no square: the absent en-passant target, the square off the board
NoSquare == -1

Other(c) == IF c = White THEN Black ELSE White

\* the colour of a non-empty piece
ColorOf(p) == IF p % 2 = 0 THEN White ELSE Black

\* the square (df, dr) away from sq, or NoSquare past the edge
Off(sq, df, dr) ==
    LET f == file(sq) + df
        r == rank(sq) + dr
    IN  IF f \in 0..7 /\ r \in 0..7 THEN r * 8 + f ELSE NoSquare

KnightOffsets == <<<<1, 2>>, <<2, 1>>, <<2, -1>>, <<1, -2>>,
                   <<-1, -2>>, <<-2, -1>>, <<-2, 1>>, <<-1, 2>>>>
KingOffsets == <<<<1, 0>>, <<1, 1>>, <<0, 1>>, <<-1, 1>>,
                 <<-1, 0>>, <<-1, -1>>, <<0, -1>>, <<1, -1>>>>
RookDirs == <<<<1, 0>>, <<0, 1>>, <<-1, 0>>, <<0, -1>>>>
BishopDirs == <<<<1, 1>>, <<-1, 1>>, <<-1, -1>>, <<1, -1>>>>

\* the first piece met from sq in direction (df, dr), or Empty
RECURSIVE FirstOnRay(_, _, _, _)
FirstOnRay(cells, sq, df, dr) ==
    LET n == Off(sq, df, dr)
    IN  IF n = NoSquare THEN 0
        ELSE IF cells[n] # 0 THEN cells[n]
        ELSE FirstOnRay(cells, n, df, dr)

HasAt(cells, sq, p) == sq # NoSquare /\ cells[sq] = p

\* is_square_attacked(square, attacker_color)
is_square_attacked(cells, sq, by) ==
    LET pdr == IF by = White THEN 1 ELSE -1
    IN  \/ HasAt(cells, Off(sq, -1, pdr), from_type_color(Pawn, by))
        \/ HasAt(cells, Off(sq, 1, pdr), from_type_color(Pawn, by))
        \/ \E i \in 1..8 :
              HasAt(cells, Off(sq, KnightOffsets[i][1], KnightOffsets[i][2]),
                    from_type_color(Knight, by))
        \/ \E i \in 1..8 :
              HasAt(cells, Off(sq, KingOffsets[i][1], KingOffsets[i][2]),
                    from_type_color(King, by))
        \/ \E i \in 1..4 :
              FirstOnRay(cells, sq, RookDirs[i][1], RookDirs[i][2])
                  \in {from_type_color(Rook, by), from_type_color(Queen, by)}
        \/ \E i \in 1..4 :
              FirstOnRay(cells, sq, BishopDirs[i][1], BishopDirs[i][2])
                  \in {from_type_color(Bishop, by), from_type_color(Queen, by)}

\* king_square(color)
king_square(cells, c) == CHOOSE sq \in Squares : cells[sq] = from_type_color(King, c)

InCheck(cells, c) == is_square_attacked(cells, king_square(cells, c), Other(c))

(***************************************************************************)
(* MoveRecord and ReverseMoveRecord.                                       *)
(***************************************************************************)
Move(from, to, prom, tag) == [from |-> from, to |-> to, prom |-> prom, tag |-> tag]

\* the castling right a move of piece p from `from` gives up, and the one a
\* capture landing on `to` takes from the opponent
RightsLost(p, from, to) ==
    (IF p = 12 THEN {"WK", "WQ"} ELSE {})
    \cup (IF p = 13 THEN {"BK", "BQ"} ELSE {})
    \cup (IF p = 8 /\ from = SqH1 THEN {"WK"} ELSE {})
    \cup (IF p = 8 /\ from = SqA1 THEN {"WQ"} ELSE {})
    \cup (IF p = 9 /\ from = SqH8 THEN {"BK"} ELSE {})
    \cup (IF p = 9 /\ from = SqA8 THEN {"BQ"} ELSE {})
    \cup (IF to = SqH1 THEN {"WK"} ELSE {})
    \cup (IF to = SqA1 THEN {"WQ"} ELSE {})
    \cup (IF to = SqH8 THEN {"BK"} ELSE {})
    \cup (IF to = SqA8 THEN {"BQ"} ELSE {})

\* apply(move) -> reverse : the position after the move and the record that
\* undoes it
do_move(b, m) ==
    LET p == b.cells[m.from]
        c == b.to_move
        capsq == IF m.tag = "EnPassantCapture"
                 THEN Off(m.to, 0, IF c = White THEN 1 ELSE -1)
                 ELSE m.to
        captured == b.cells[capsq]
        placed == IF m.prom # Empty THEN from_type_color(m.prom, c) ELSE p
        \* (1) vacate the source, (2) remove the captured piece
        c1 == [b.cells EXCEPT ![m.from] = 0, ![capsq] = 0]
        \* (3) place the moving or promoted piece
        c2 == [c1 EXCEPT ![m.to] = placed]
        \* (4) relocate the rook of a castling move
        c3 == IF m.tag = "CastleKingSide"
              THEN [c2 EXCEPT ![m.to + 1] = 0, ![m.to - 1] = from_type_color(Rook, c)]
              ELSE IF m.tag = "CastleQueenSide"
              THEN [c2 EXCEPT ![m.to - 2] = 0, ![m.to + 1] = from_type_color(Rook, c)]
              ELSE c2
    IN  [board |->
            [cells |-> c3,
             \* (8) flip the side to move
             to_move |-> Other(c),
             \* (5) castling rights
             castling |-> b.castling \ RightsLost(p, m.from, m.to),
             \* (6) en-passant target
             en_passant |-> IF m.tag = "DoublePawnPush"
                            THEN Off(m.from, 0, IF c = White THEN -1 ELSE 1)
                            ELSE NoSquare,
             \* (7) half-move clock
             half_move_clock |-> IF piece_type(p) = Pawn \/ captured # 0
                                 THEN 0 ELSE b.half_move_clock + 1,
             move_num |-> IF c = Black THEN b.move_num + 1 ELSE b.move_num],
         reverse |->
            [from |-> m.from, to |-> m.to, prom |-> m.prom # Empty,
             capture |-> captured,
             capture_sq |-> IF captured # 0 THEN capsq ELSE NoSquare,
             old_castling |-> b.castling,
             old_en_passant |-> b.en_passant,
             old_half_move_clock |-> b.half_move_clock]]

\* unapply(reverse) : the position before the move the record came from
reverse_move(b, r) ==
    LET c == Other(b.to_move)
        p == IF r.prom THEN from_type_color(Pawn, c) ELSE b.cells[r.to]
        c1 == [b.cells EXCEPT ![r.to] = 0, ![r.from] = p]
        c2 == IF r.capture # 0 THEN [c1 EXCEPT ![r.capture_sq] = r.capture] ELSE c1
        c3 == IF piece_type(p) = King /\ r.to - r.from = 2
              THEN [c2 EXCEPT ![r.to - 1] = 0, ![r.to + 1] = from_type_color(Rook, c)]
              ELSE IF piece_type(p) = King /\ r.from - r.to = 2
              THEN [c2 EXCEPT ![r.to + 1] = 0, ![r.to - 2] = from_type_color(Rook, c)]
              ELSE c2
    IN  [cells |-> c3,
         to_move |-> c,
         castling |-> r.old_castling,
         en_passant |-> r.old_en_passant,
         half_move_clock |-> r.old_half_move_clock,
         move_num |-> IF c = Black THEN b.move_num - 1 ELSE b.move_num]

(***************************************************************************)
(* MoveGenerator: pseudo-legal generation, then the king-safety filter.    *)
(***************************************************************************)
PromotionKinds == <<Knight, Bishop, Rook, Queen>>

\* a pawn's arrival on `to`: four promotion records on the last rank
PawnArrival(from, to, c, tag) ==
    IF rank(to) = (IF c = White THEN 0 ELSE 7)
    THEN [i \in 1..4 |-> Move(from, to, PromotionKinds[i], tag)]
    ELSE <<Move(from, to, Empty, tag)>>

PawnCapture(b, sq, c, df) ==
    LET n == Off(sq, df, IF c = White THEN -1 ELSE 1)
    IN  IF n = NoSquare THEN <<>>
        ELSE IF b.cells[n] # 0
        THEN (IF ColorOf(b.cells[n]) # c THEN PawnArrival(sq, n, c, "Normal") ELSE <<>>)
        ELSE IF n = b.en_passant THEN <<Move(sq, n, Empty, "EnPassantCapture")>>
        ELSE <<>>

PawnMoves(b, sq, c) ==
    LET dr == IF c = White THEN -1 ELSE 1
        n1 == Off(sq, 0, dr)
        n2 == Off(n1, 0, dr)
        push == IF n1 # NoSquare /\ b.cells[n1] = 0
                THEN PawnArrival(sq, n1, c, "Normal") ELSE <<>>
        double == IF /\ rank(sq) = (IF c = White THEN 6 ELSE 1)
                     /\ b.cells[n1] = 0 /\ b.cells[n2] = 0
                  THEN <<Move(sq, n2, Empty, "DoublePawnPush")>> ELSE <<>>
    IN  push \o double \o PawnCapture(b, sq, c, -1) \o PawnCapture(b, sq, c, 1)

\* the moves of a knight or king: fixed offsets, not onto a friendly piece
RECURSIVE StepMoves(_, _, _, _, _)
StepMoves(b, sq, c, offsets, i) ==
    IF i > Len(offsets) THEN <<>>
    ELSE LET n == Off(sq, offsets[i][1], offsets[i][2])
         IN  (IF n # NoSquare /\ (b.cells[n] = 0 \/ ColorOf(b.cells[n]) # c)
              THEN <<Move(sq, n, Empty, "Normal")>> ELSE <<>>)
             \o StepMoves(b, sq, c, offsets, i + 1)

\* one ray of a sliding piece
RECURSIVE RayMoves(_, _, _, _, _, _)
RayMoves(b, from, cur, c, df, dr) ==
    LET n == Off(cur, df, dr)
    IN  IF n = NoSquare THEN <<>>
        ELSE IF b.cells[n] = 0
        THEN <<Move(from, n, Empty, "Normal")>> \o RayMoves(b, from, n, c, df, dr)
        ELSE IF ColorOf(b.cells[n]) # c THEN <<Move(from, n, Empty, "Normal")>>
        ELSE <<>>

RECURSIVE SlideMoves(_, _, _, _, _)
SlideMoves(b, sq, c, dirs, i) ==
    IF i > Len(dirs) THEN <<>>
    ELSE RayMoves(b, sq, sq, c, dirs[i][1], dirs[i][2]) \o SlideMoves(b, sq, c, dirs, i + 1)

\* castling: right set, squares between king and rook empty, king not
\* attacked, transit and destination squares not attacked
CastleMoves(b, sq, c) ==
    LET home == IF c = White THEN SqE1 ELSE SqE8
        ks == IF c = White THEN "WK" ELSE "BK"
        qs == IF c = White THEN "WQ" ELSE "BQ"
        free(s) == ~is_square_attacked(b.cells, s, Other(c))
        king == IF /\ ks \in b.castling
                   /\ b.cells[home + 1] = 0 /\ b.cells[home + 2] = 0
                   /\ free(home) /\ free(home + 1) /\ free(home + 2)
                THEN <<Move(home, home + 2, Empty, "CastleKingSide")>> ELSE <<>>
        queen == IF /\ qs \in b.castling
                    /\ b.cells[home - 1] = 0 /\ b.cells[home - 2] = 0
                    /\ b.cells[home - 3] = 0
                    /\ free(home) /\ free(home - 1) /\ free(home - 2)
                 THEN <<Move(home, home - 2, Empty, "CastleQueenSide")>> ELSE <<>>
    IN  IF sq = home THEN king \o queen ELSE <<>>

PieceMoves(b, sq) ==
    LET p == b.cells[sq]
        c == b.to_move
        k == piece_type(p)
    IN  IF p = 0 \/ ColorOf(p) # c THEN <<>>
        ELSE CASE k = Pawn -> PawnMoves(b, sq, c)
               [] k = Knight -> StepMoves(b, sq, c, KnightOffsets, 1)
               [] k = Bishop -> SlideMoves(b, sq, c, BishopDirs, 1)
               [] k = Rook -> SlideMoves(b, sq, c, RookDirs, 1)
               [] k = Queen -> SlideMoves(b, sq, c, RookDirs, 1)
                               \o SlideMoves(b, sq, c, BishopDirs, 1)
               [] k = King -> StepMoves(b, sq, c, KingOffsets, 1) \o CastleMoves(b, sq, c)

\* the pseudo-legal moves from the squares lo..hi, in square order
RECURSIVE PseudoLegalIn(_, _, _)
PseudoLegalIn(b, lo, hi) ==
    IF lo = hi THEN PieceMoves(b, lo)
    ELSE LET mid == (lo + hi) \div 2
         IN  PseudoLegalIn(b, lo, mid) \o PseudoLegalIn(b, mid + 1, hi)

PseudoLegal(b) == PseudoLegalIn(b, 0, 63)

\* the legality filter: apply, test the mover's king, (unapply)
IsLegal(b, m) == ~InCheck(do_move(b, m).board.cells, b.to_move)

\* generate_moves : the legal moves, in generation order
generate_moves(b) == SelectSeq(PseudoLegal(b), LAMBDA m : IsLegal(b, m))

\* is there a legal move at all (the legal-move count is not zero)
HasLegalMove(b) ==
    LET pl == PseudoLegal(b)
    IN  \E i \in 1..Len(pl) : IsLegal(b, pl[i])

\* game_result : None while the game goes on
game_result(b) ==
    IF ~HasLegalMove(b)
    THEN (IF InCheck(b.cells, b.to_move)
          THEN Some(<<"WinFor", Other(b.to_move)>>) ELSE Some(<<"Draw">>))
    ELSE IF b.half_move_clock >= 100 THEN Some(<<"Draw">>)
    ELSE None

(***************************************************************************)
(* Positions the harness is run on.                                        *)
(***************************************************************************)
BackRank == <<Rook, Knight, Bishop, Queen, King, Bishop, Knight, Rook>>

\* the standard initial position
start_board ==
    [cells |-> [sq \in Squares |->
                   CASE rank(sq) = 0 -> from_type_color(BackRank[file(sq) + 1], Black)
                     [] rank(sq) = 1 -> from_type_color(Pawn, Black)
                     [] rank(sq) = 6 -> from_type_color(Pawn, White)
                     [] rank(sq) = 7 -> from_type_color(BackRank[file(sq) + 1], White)
                     [] OTHER -> 0],
     to_move |-> White,
     castling |-> {"WK", "WQ", "BK", "BQ"},
     en_passant |-> NoSquare,
     half_move_clock |-> 0,
     move_num |-> 1]

\* a position given by its pieces (a function from some squares to pieces)
Position(pieces, to_move, castling, en_passant, clock) ==
    [cells |-> [sq \in Squares |-> IF sq \in DOMAIN pieces THEN pieces[sq] ELSE 0],
     to_move |-> to_move,
     castling |-> castling,
     en_passant |-> en_passant,
     half_move_clock |-> clock,
     move_num |-> 40]

\* r3k2r/8/8/8/8/8/8/R3K2R : both sides may castle either way
CastlePieces == (0 :> 9) @@ (4 :> 13) @@ (7 :> 9) @@ (56 :> 8) @@ (60 :> 12) @@ (63 :> 8)
CastleWhite == Position(CastlePieces, White, {"WK", "WQ", "BK", "BQ"}, NoSquare, 0)
CastleBlack == Position(CastlePieces, Black, {"WK", "WQ", "BK", "BQ"}, NoSquare, 0)
\* the same with the 50-move rule one quiet move away
CastleClock == Position(CastlePieces, White, {"WK", "WQ", "BK", "BQ"}, NoSquare, 99)

\* 1n2k3/P7/8/3pP3/1pP5/8/7p/4K1N1 : promotions (with and without
\* capture) and en-passant captures for both sides
PromoPieces == (1 :> 5) @@ (4 :> 13) @@ (8 :> 2) @@ (27 :> 3) @@ (28 :> 2)
               @@ (33 :> 3) @@ (34 :> 2) @@ (55 :> 3) @@ (60 :> 12) @@ (62 :> 4)
\* White to move after d7-d5: en-passant target d6
PromoWhite == Position(PromoPieces, White, {}, 19, 0)
\* Black to move after c2-c4: en-passant target c3
PromoBlack == Position(PromoPieces, Black, {}, 42, 0)

\* after 1.f3 e5 2.g4 : Black mates with Qh4
PreMate ==
    LET b1 == do_move(start_board, Move(53, 45, Empty, "Normal")).board
        b2 == do_move(b1, Move(12, 28, Empty, "DoublePawnPush")).board
    IN  do_move(b2, Move(54, 38, Empty, "DoublePawnPush")).board
\* after 2...Qh4# : White is checkmated
Mated == do_move(PreMate, Move(3, 39, Empty, "Normal")).board

\* k7/8/1QK5/8/8/8/8/8, Black to move: stalemate
Stalemate == Position((0 :> 13) @@ (17 :> 10) @@ (18 :> 12), Black, {}, NoSquare, 7)

\* 6k1/2p5/8/1P6/8/8/p7/6K1, White to move: few moves, a Black promotion
\* on the second ply, an en-passant capture on the third
Small == Position((6 :> 13) @@ (10 :> 3) @@ (25 :> 2) @@ (48 :> 3) @@ (62 :> 12),
                  White, {}, NoSquare, 0)

\* positions with few moves, explored to the full depth
LightBoards == {Small, Mated, Stalemate}
\* positions with many moves, explored one ply less
HeavyBoards == {start_board, CastleWhite, CastleBlack, CastleClock,
                PromoWhite, PromoBlack, PreMate}

Roots == [board : LightBoards, depth : 0..MaxDepth]
         \cup [board : HeavyBoards, depth : 0..(MaxDepth - 1)]

\* the known perft answers of the initial position, by depth (from 0)
ReferenceCounts == <<1, 20, 400, 8902, 197281>>

RefRoots == [board : {start_board}, depth : 0..(Len(ReferenceCounts) - 1)]
            \cup [board : {Mated}, depth : {1}]

(***************************************************************************)
(* perft, step by step.  A frame is one activation of perft: its depth,    *)
(* its position in the code, and its locals moves, total_moves and         *)
(* reverse_move; i counts the moves the for loop has taken.  result is the *)
(* value the last activation returned.                                     *)
(***************************************************************************)
Frame(depth) ==
    [depth |-> depth, pc |-> "enter", moves |-> <<>>, i |-> 1,
     total_moves |-> 0, reverse_move |-> None]

Top == stack[Len(stack)]
Pop == SubSeq(stack, 1, Len(stack) - 1)
SetTop(f) == [stack EXCEPT ![Len(stack)] = f]
AtPc(pc) == stack # <<>> /\ Top.pc = pc

\* line 7 after line 8: the terminal test made before the depth test
ReturnDepth0_TerminalFirst ==
    /\ AtPc("enter") /\ Top.depth = 0
    /\ stack' = Pop
    /\ result' = IF game_result(board) # None THEN Some(0) ELSE Some(1)
    /\ UNCHANGED <<call, ret, board, root, outstanding, undone>>

\* line 7: depth == 0 => 1
ReturnDepth0 ==
    /\ AtPc("enter") /\ Top.depth = 0
    /\ stack' = Pop
    /\ result' = Some(1)
    /\ UNCHANGED <<call, ret, board, root, outstanding, undone>>

\* line 8: a terminal position => 0
ReturnTerminal ==
    /\ AtPc("enter") /\ Top.depth # 0
    /\ game_result(board) # None
    /\ stack' = Pop
    /\ result' = Some(0)
    /\ UNCHANGED <<call, ret, board, root, outstanding, undone>>

\* lines 9-11: depth == 1 => moves.len()
ReturnCount ==
    /\ AtPc("enter") /\ Top.depth = 1
    /\ game_result(board) = None
    /\ stack' = Pop
    /\ result' = Some(Len(generate_moves(board)))
    /\ UNCHANGED <<call, ret, board, root, outstanding, undone>>

\* lines 9-12: generate the moves and start the loop
StartLoop ==
    /\ AtPc("enter") /\ Top.depth > 1
    /\ game_result(board) = None
    /\ stack' = SetTop([Top EXCEPT !.pc = "loop", !.moves = generate_moves(board),
                                   !.i = 1, !.total_moves = 0])
    /\ UNCHANGED <<call, ret, board, result, root, outstanding, undone>>

\* lines 13-15: do_move the next move and call perft(board, depth - 1)
DoMoveStep ==
    /\ AtPc("loop") /\ Top.i <= Len(Top.moves)
    /\ LET a == do_move(board, Top.moves[Top.i])
       IN  /\ board' = a.board
           /\ stack' = Append(SetTop([Top EXCEPT !.pc = "call", !.reverse_move = a.reverse]),
                              Frame(Top.depth - 1))
           /\ outstanding' = Append(outstanding, [record |-> a.reverse, before |-> board])
    /\ UNCHANGED <<call, ret, result, root, undone>>

\* lines 15-16 with the reverse_move call forgotten
ReverseMoveStep_NoUndo ==
    /\ AtPc("call") /\ result # None
    /\ stack' = SetTop([Top EXCEPT !.pc = "loop", !.i = @ + 1,
                                   !.total_moves = @ + result.val,
                                   !.reverse_move = None])
    /\ result' = None
    /\ UNCHANGED <<call, ret, board, root, outstanding, undone>>

\* lines 15-16 with an early return when the call found nothing, taken
\* before reverse_move
ReverseMoveStep_EarlyReturn ==
    /\ AtPc("call") /\ result # None
    /\ IF result.val = 0
       THEN /\ stack' = Pop
            /\ result' = Some(Top.total_moves)
            /\ UNCHANGED <<board, outstanding, undone>>
       ELSE /\ board' = reverse_move(board, Top.reverse_move)
            /\ stack' = SetTop([Top EXCEPT !.pc = "loop", !.i = @ + 1,
                                           !.total_moves = @ + result.val,
                                           !.reverse_move = None])
            /\ result' = None
            /\ undone' = [record |-> Top.reverse_move,
                          pending |-> outstanding,
                          after |-> board']
            /\ outstanding' = SubSeq(outstanding, 1, Len(outstanding) - 1)
    /\ UNCHANGED <<call, ret, root>>

\* lines 15-16 with total_moves overwritten instead of added to
ReverseMoveStep_Overwrite ==
    /\ AtPc("call") /\ result # None
    /\ board' = reverse_move(board, Top.reverse_move)
    /\ stack' = SetTop([Top EXCEPT !.pc = "loop", !.i = @ + 1,
                                   !.total_moves = result.val,
                                   !.reverse_move = None])
    /\ result' = None
    /\ undone' = [record |-> Top.reverse_move,
                  pending |-> outstanding,
                  after |-> board']
    /\ outstanding' = SubSeq(outstanding, 1, Len(outstanding) - 1)
    /\ UNCHANGED <<call, ret, root>>

\* lines 15-16: add what the call returned and reverse_move the record
ReverseMoveStep ==
    /\ AtPc("call") /\ result # None
    /\ board' = reverse_move(board, Top.reverse_move)
    /\ stack' = SetTop([Top EXCEPT !.pc = "loop", !.i = @ + 1,
                                   !.total_moves = @ + result.val,
                                   !.reverse_move = None])
    /\ result' = None
    /\ undone' = [record |-> Top.reverse_move,
                  pending |-> outstanding,
                  after |-> board']
    /\ outstanding' = SubSeq(outstanding, 1, Len(outstanding) - 1)
    /\ UNCHANGED <<call, ret, root>>

\* line 18: the loop is over => total_moves
ReturnTotal ==
    /\ AtPc("loop") /\ Top.i > Len(Top.moves)
    /\ stack' = Pop
    /\ result' = Some(Top.total_moves)
    /\ UNCHANGED <<call, ret, board, root, outstanding, undone>>

InitOn(roots) ==
    /\ call = <<"none">> /\ ret = <<"none">>
    /\ root \in roots
    /\ board = root.board
    /\ stack = <<Frame(root.depth)>>
    /\ result = None
    /\ outstanding = <<>>
    /\ undone = None

Init == InitOn(Roots)

Next ==
    \/ ReturnDepth0
    \/ ReturnTerminal
    \/ ReturnCount
    \/ StartLoop
    \/ DoMoveStep
    \/ ReverseMoveStep
    \/ ReturnTotal

Spec == Init /\ [][Next]_vars

\* the harness on the initial position, to the depth of the known answers
InitRef == InitOn(RefRoots)
SpecRef == InitRef /\ [][Next]_vars

Returned == stack = <<>> /\ result # None

(***************************************************************************)
(* The functions of types.rs, called on inputs drawn from bounded sets:    *)
(* call is the call made, ret what it returned.                            *)
(***************************************************************************)
Texts == UNION {[1..n -> AlgChars] : n \in 0..MaxLen}

\* u8 coordinates: the small ones, and the ones whose shift leaves the byte
Coords == (0..MaxCoord) \cup {31, 32, 255}

\* the function called, its argument(s) and what it returned
Op == call[1]
Arg == call[2]
Ret == ret[2]

\* the functions are pure: each behaviour makes one call
Idle == call = <<"none">>

PerftIdle ==
    /\ board = None /\ stack = <<>> /\ result = None
    /\ root = None /\ outstanding = <<>> /\ undone = None

CallFromAlg ==
    /\ Idle
    /\ \E alg \in Texts :
          /\ call' = <<"from_alg", alg>>
          /\ ret' = <<call'[1], from_alg(alg)>>
    /\ UNCHANGED <<board, stack, result, root, outstanding, undone>>

CallSquareFmt ==
    /\ Idle
    /\ \E sq \in Squares :
          /\ call' = <<"Square_fmt", sq>>
          /\ ret' = <<call'[1], Square_fmt(sq)>>
    /\ UNCHANGED <<board, stack, result, root, outstanding, undone>>

CallFromInts ==
    /\ Idle
    /\ \E f \in Coords, r \in Coords, debug_assertions \in BOOLEAN :
          /\ call' = <<"from_ints", <<f, r, debug_assertions>>>>
          /\ ret' = <<call'[1], from_ints(f, r, debug_assertions)>>
    /\ UNCHANGED <<board, stack, result, root, outstanding, undone>>

CallFromTypeColor ==
    /\ Idle
    /\ \E k \in PieceTypes, c \in Colors :
          /\ call' = <<"from_type_color", <<k, c>>>>
          /\ ret' = <<call'[1], from_type_color(k, c)>>
    /\ UNCHANGED <<board, stack, result, root, outstanding, undone>>

CallLetter ==
    /\ Idle
    /\ \E k \in PieceTypes :
          /\ call' = <<"letter", k>>
          /\ ret' = <<call'[1], letter(k)>>
    /\ UNCHANGED <<board, stack, result, root, outstanding, undone>>

CallPieceTypeFromLetter ==
    /\ Idle
    /\ \E ch \in Chars :
          /\ call' = <<"PieceType_from_letter", ch>>
          /\ ret' = <<call'[1], PieceType_from_letter(ch)>>
    /\ UNCHANGED <<board, stack, result, root, outstanding, undone>>

CallPieceFmt ==
    /\ Idle
    /\ \E p \in Pieces :
          /\ call' = <<"Piece_fmt", p>>
          /\ ret' = <<call'[1], Piece_fmt(p)>>
    /\ UNCHANGED <<board, stack, result, root, outstanding, undone>>

CallPieceFromLetter ==
    /\ Idle
    /\ \E ch \in Chars :
          /\ call' = <<"Piece_from_letter", ch>>
          /\ ret' = <<call'[1], Piece_from_letter(ch)>>
    /\ UNCHANGED <<board, stack, result, root, outstanding, undone>>

InitTypes == call = <<"none">> /\ ret = <<"none">> /\ PerftIdle

NextTypes ==
    \/ CallFromAlg
    \/ CallSquareFmt
    \/ CallFromInts
    \/ CallFromTypeColor
    \/ CallLetter
    \/ CallPieceTypeFromLetter
    \/ CallPieceFmt
    \/ CallPieceFromLetter

SpecTypes == InitTypes /\ [][NextTypes]_vars

(***************************************************************************)
(* Claims about types.rs, checked under SpecTypes.                         *)
(***************************************************************************)
ValidAlg(alg) == Len(alg) = 2 /\ alg[1] \in 97..104 /\ alg[2] \in 49..56

\* C4: for every square index 0..63 the text Display writes is a file letter
\* 'a'..'h' followed by a rank digit '1'..'8', and from_alg of that text is
\* Ok of the same square.
SquareTextRoundTrip ==
    Op = "Square_fmt" =>
        /\ ValidAlg(Ret)
        /\ from_alg(Ret) = Ok(Arg)

\* C4 witness: square 0 (internal rank 0) was displayed as "a8"
SquareTextWitness ==
    Op = "Square_fmt" /\ Arg = 0 /\ Ret = <<97, 56>>

\* C5: from_alg returns the ParseError carrying the text unless the text is
\* exactly two characters 'a'..'h', '1'..'8', when it returns Ok of
\* (8 - rank digit) * 8 + (file - 'a'); it fails in no other way.
FromAlgErrorOrSquare ==
    Op = "from_alg" =>
        IF ValidAlg(Arg)
        THEN Ret = Ok((8 - (Arg[2] - 48)) * 8 + (Arg[1] - 97))
        ELSE Ret = Err("ParseError", InvalidSquare(Arg))

\* C6: from_ints with a coordinate >= 8 never returns a Square; with both
\* < 8 it returns rank * 8 + file, whose file() and rank() are the arguments.
FromIntsChecked ==
    Op = "from_ints" =>
        LET f == Arg[1]
            r == Arg[2]
        IN  IF f < 8 /\ r < 8
            THEN /\ Ret = Ok(r * 8 + f)
                 /\ file(Ret.val) = f
                 /\ rank(Ret.val) = r
            ELSE Ret = Panic

\* C7: from_type_color(k, c) is one of the 13 Piece values; for k not Empty
\* it is 2k (White) or 2k + 1 (Black) and decodes to k and Some(c); for
\* Empty it is Piece::Empty with no colour; no Piece of kind Empty has a
\* colour.
FromTypeColorDecodes ==
    /\ Op = "from_type_color" =>
          LET k == Arg[1]
              c == Arg[2]
          IN  /\ Ret \in Pieces
              /\ k # Empty =>
                    /\ Ret = 2 * k + (IF c = White THEN 0 ELSE 1)
                    /\ piece_type(Ret) = k
                    /\ color(Ret) = Some(c)
              /\ k = Empty => Ret = 0 /\ color(Ret) = None
    /\ \A p \in Pieces : piece_type(p) = Empty => color(p) = None

\* C7 witness: the Black queen was encoded as 11
FromTypeColorWitness ==
    Op = "from_type_color" /\ Arg = <<Queen, Black>> /\ Ret = 11

PieceLetters == {80, 78, 66, 82, 81, 75, 32}

\* C8: from_letter(letter(k)) is Some(k) for every PieceType; from_letter is
\* None outside {P,N,B,R,Q,K,space}; every Piece is read back from its
\* displayed letter, upper case for White, lower case for Black, space for
\* Empty.
LetterRoundTrip ==
    /\ Op = "letter" =>
          Ret \in PieceLetters /\ PieceType_from_letter(Ret) = Some(Arg)
    /\ Op = "PieceType_from_letter" =>
          (Arg \notin PieceLetters => Ret = None)
    /\ Op = "Piece_fmt" =>
          /\ Piece_from_letter(Ret) = Some(Arg)
          /\ color(Arg) = Some(White) => Ret \in 65..90
          /\ color(Arg) = Some(Black) => Ret \in 97..122
          /\ Arg = 0 => Ret = 32
    /\ Op = "Piece_from_letter" =>
          /\ Arg = 32 => Ret = Some(0)
          /\ (Ret # None /\ Arg \in 65..90) => color(Ret.val) = Some(White)
          /\ (Ret # None /\ Arg \in 97..122) => color(Ret.val) = Some(Black)
          /\ Ret # None => Ret.val \in Pieces /\ Piece_fmt(Ret.val) = Arg

\* C8 witness: the Black knight was displayed as 'n'
LetterWitness ==
    Op = "Piece_fmt" /\ Arg = 5 /\ Ret = 110

(***************************************************************************)
(* Claims about the perft harness and the board it drives.                 *)
(***************************************************************************)
Last(s) == s[Len(s)]

\* the depth of the call that returned last
ReturnedDepth == IF stack = <<>> THEN root.depth ELSE Top.depth - 1

PerftRestoresBoard == Returned => board = root.board

\* C2 witness: perft returned from the apply/recurse/unapply loop at the
\* full depth
PerftRestoresWitness ==
    Returned /\ root.depth = MaxDepth /\ root.board = Small /\ result.val > 0

\* C3: perft of the initial position is 1, 20, 400, 8902, 197281 at depths
\* 0 to 4.
PerftReference ==
    (Returned /\ root.board = start_board) =>
        result = Some(ReferenceCounts[root.depth + 1])

\* C3 witness: perft(initial position, 4) returned 197281
PerftReferenceWitness ==
    Returned /\ root.board = start_board /\ root.depth = 4 /\ result = Some(197281)

\* perft has not returned and its next step can be taken: the guards of
\* the steps, position by position
CanStep ==
    \/ AtPc("enter") /\ Top.depth = 0
    \/ AtPc("enter") /\ Top.depth # 0 /\ game_result(board) # None
    \/ AtPc("enter") /\ Top.depth = 1 /\ game_result(board) = None
    \/ AtPc("enter") /\ Top.depth > 1 /\ game_result(board) = None
    \/ AtPc("loop") /\ Top.i <= Len(Top.moves)
    \/ AtPc("call") /\ result # None
    \/ AtPc("loop") /\ Top.i > Len(Top.moves)

\* the parts of C9 that do not depend on the bound
StackDiscipline ==
    \* the record unapplied is the one applied last and not yet unapplied
    /\ undone # None => undone.record = Last(undone.pending).record
    \* the records outstanding are the ones the active frames hold, in order
    /\ Len(outstanding) = Cardinality({k \in 1..Len(stack) : stack[k].pc = "call"})
    /\ \A k \in 1..Len(stack) :
          stack[k].pc = "call" => stack[k].reverse_move = outstanding[k].record
    \* perft runs on until it returns, and then no move is outstanding
    /\ Returned \/ CanStep
    /\ Returned => outstanding = <<>>
    \* the early returns happen before any move is applied: a move is
    \* applied only at depth > 1 and, first, in a position that is not terminal
    /\ (outstanding # <<>> \/ undone # None) => root.depth > 1
    /\ (Len(outstanding) = 1 /\ undone = None /\ AtPc("enter")) =>
          game_result(root.board) = None

\* C9 as stated: every do_move is followed by the reverse_move of its
\* record, in last-in-first-out order, at most depth - 1 moves are
\* outstanding at any moment, and none when the call returns.
StackDisciplineAsStated ==
    /\ StackDiscipline
    /\ Len(outstanding) <= root.depth - 1

\* C9 as amended: every do_move is followed by the reverse_move of its
\* record, in last-in-first-out order; at most depth - 1 moves are
\* outstanding when depth >= 1 and none when depth = 0; none is outstanding
\* when the call returns.
StackDisciplineAmended ==
    /\ StackDiscipline
    /\ Len(outstanding) <= (IF root.depth = 0 THEN 0 ELSE root.depth - 1)

\* C9 witness: two moves were outstanding and the later one was unapplied
\* first
StackDisciplineWitness ==
    /\ undone # None
    /\ Len(undone.pending) = 2
    /\ Len(outstanding) = 1
    /\ root.depth = 3

\* perft by the general recursion alone, without the depth-1 shortcut
RECURSIVE perft_general(_, _)
perft_general(b, depth) ==
    IF depth = 0 THEN 1
    ELSE IF game_result(b) # None THEN 0
    ELSE LET moves == generate_moves(b)
             RECURSIVE Sum(_)
             Sum(i) == IF i > Len(moves) THEN 0
                       ELSE perft_general(do_move(b, moves[i]).board, depth - 1)
                            + Sum(i + 1)
         IN  Sum(1)

\* C10: perft at depth 0 is 1 in every position, terminal ones included; at
\* depth >= 1 it is 0 in a terminal position; and every call returns what
\* the general recursion without the depth-1 shortcut gives.
DepthBeforeTerminal ==
    result # None =>
        /\ ReturnedDepth = 0 => result = Some(1)
        /\ (ReturnedDepth >= 1 /\ game_result(board) # None) => result = Some(0)
        /\ result.val = perft_general(board, ReturnedDepth)

\* C10 witness: a depth-1 call returned the move count of a position in
\* which one of the moves gives checkmate
DepthBeforeTerminalWitness ==
    /\ Returned /\ root.depth = 1 /\ root.board = PreMate
    /\ result.val > 0
    /\ \E i \in 1..Len(generate_moves(board)) :
          game_result(do_move(board, generate_moves(board)[i]).board) # None

====
